---- MODULE Spec2Model ----
(***************************************************************************)
(* The PCAP filesystem watcher of pcap-sidecar (pcap-fsnotify, package     *)
(* main): the event loop that pairs rotated segments per rotation key, the *)
(* mover that copies a segment to the destination directory with retries,  *)
(* the signal handler with its deadline timer and lock wait, and main's    *)
(* drain and terminal flush.                                               *)
(*                                                                         *)
(* Goroutines are interleaved at the granularity of their accesses to      *)
(* shared state: the filesystem, the maps, isActive, the context, the      *)
(* WaitGroup and the watcher's channel.  The capture process, the kernel   *)
(* and the clock are the environment: they create segments, deliver the    *)
(* signal, release the lock, let timers expire and make I/O calls fail.    *)
(* A segment's content is fixed when the segment appears.  An event of the *)
(* environment that a single step of the program observes (the delivery of *)
(* the signal, the expiry of the flush context) is taken together with the *)
(* step that observes it.                                                  *)
(*                                                                         *)
(* The typed getters of the configuration package (pcap-config) are pure   *)
(* functions of a context entry; they are operators here, applied by the   *)
(* actions of SpecConfig to every kind of entry LoadContext can store.     *)
(***************************************************************************)
EXTENDS Integers, Sequences, FiniteSets, TLC

\* ------------------------------------------------------------------ bounds
\* Sample values of each type a context entry can have, counted from 0.
MaxValue == 1
\* Segments the capture process creates in a whole run of the program.
MaxFiles == 2
\* Segments it creates while the program runs with no shutdown requested.
MaxStreamFiles == 3
\* I/O calls the environment makes fail.
MaxFaults == 1
\* Largest value of -retries_max.
MaxRetriesMax == 2
\* Chunks of a segment's content.
SegLen == 1
\* Events buffered by the watcher when the environment adds one that is not
\* the creation of a segment.
MaxPending == 2
\* Ticks of the memory monitor's ticker.
MaxTicks == 2

VARIABLES
    gzip_pcaps,     \* flag -gzip
    retries_max,    \* flag -retries_max
    srcDir,         \* names present in *src_dir
    dst,            \* *gcs_dir: destination name -> content written so far
    created,        \* every segment the capture process has created
    capture,        \* "running" | "stopped": the capture process
    lockHeld,       \* /var/lock/pcap.lock is held by the capture side
    signalled,      \* the termination signal has been delivered and received
    watching,       \* watcher.Add succeeded and the watcher is not closed
    watcherClosed,  \* watcher.Close was called
    events,         \* watcher.Events: buffered events [name, op]
    counters,       \* haxmap key -> creation counter
    lastPcap,       \* haxmap key -> active segment
    isActive,       \* atomic.Bool
    cancelled,      \* ctx.Done() of the shared context is closed
    cancelCalls,    \* number of cancel() calls whose guard was won
    flushCtxDone,   \* the 5 s context of the terminal flush has expired
    wg,             \* sync.WaitGroup counter
    main,           \* main goroutine: [pc, err, pending, first]
    el,             \* event loop goroutine: [pc, event, op, last, loaded, iteration]
    sg,             \* signal goroutine: [pc, timer]
    mv,             \* task id -> mover state; 0 is the streaming export
    processed,      \* create-events handed to the streaming path, in order
    launches,       \* movePcapToGcs calls made by the streaming path
    copied,         \* successful copies: [src, tgt, by]
    leaks,          \* number of "leaked PCAP file" records
    faults,         \* I/O failures injected so far
    swaps,          \* streaming calls in the order of their compare-and-swap
    sup,            \* a second streaming call, concurrent with the loop's
    mon,            \* memory monitor goroutine: [pc, log], one entry per tick
    lookup          \* pcap-config: a context entry and a getter's call on it

vars == <<gzip_pcaps, retries_max, srcDir, dst, created, capture, lockHeld,
          signalled, watching, watcherClosed, events, counters,
          lastPcap, isActive, cancelled, cancelCalls, flushCtxDone, wg, main,
          el, sg, mv, processed, launches, copied, leaks, faults, swaps,
          sup, mon, lookup>>

\* ------------------------------------------------------------------- names
Exts == {"pcap", "json"}

Seg(ts, ext) ==
    [kind |-> "part", ord |-> 0, iface |-> "eth0", ts |-> ts, ext |-> ext]

Sentinel ==
    [kind |-> "TCPDUMPW_EXITED", ord |-> 0, iface |-> "", ts |-> 0, ext |-> ""]

\* The empty string: what lastPcap.Get returns for a key it does not hold.
NoName == [kind |-> "", ord |-> 0, iface |-> "", ts |-> 0, ext |-> ""]

Segments == {Seg(ts, e) : ts \in 1..(MaxFiles + MaxStreamFiles), e \in Exts}

\* A file of the source directory that is no segment and not the sentinel.
Other == [kind |-> "other", ord |-> 0, iface |-> "", ts |-> 0, ext |-> ""]

\* What the watcher delivers: the name and the operation.
Event(name, op) == [name |-> name, op |-> op]

\* A test of the operation that every event would pass.
HasAny(event) == TRUE

\* event.Has(fsnotify.Create)
HasCreate(event) == event.op = "CREATE"

\* pcapDotExt.FindStringSubmatch: the whole match and the three groups.
FindStringSubmatch(name) ==
    IF name.kind = "part" /\ name.ext \in Exts
    THEN <<name, name.ord, name.iface, name.ext>>
    ELSE <<>>

pcapDotExtMatch(name) == FindStringSubmatch(name) # <<>>

tcpdumpwExitSignalMatch(name) == name.kind = "TCPDUMPW_EXITED"

\* A key made of the ordinal and the stream-id alone.
KeyOfStream(name) == SubSeq(FindStringSubmatch(name), 2, 3)

\* key := strings.Join(rMatch[1:], "/")
KeyOf(name) == SubSeq(FindStringSubmatch(name), 2, 4)

\* -------------------------------------------------------------- file content
Content(name) == [i \in 1..SegLen |-> <<"raw", name.ts, i>>]

GzipChunk(c) == <<"gz", c[2], c[3]>>

\* What a copy attempt writes for the chunks it got from the source.
Encode(compress, chunks) ==
    IF compress THEN [i \in 1..Len(chunks) |-> GzipChunk(chunks[i])] ELSE chunks

\* What a reader of a compressed destination gets back.
Gunzip(data) ==
    [i \in 1..Len(data) |->
        IF data[i][1] = "gz" THEN <<"raw", data[i][2], data[i][3]>>
        ELSE <<"bad", data[i][2], data[i][3]>>]

\* tgtPcap: destination directory, base name, ".gz" when compressing.
TargetName(src, compress) == [dir |-> "gcs_dir", base |-> src, gz |-> compress]

\* The segment's content as a reader of the destination file sees it.
Readable(tgt) == IF tgt.gz THEN Gunzip(dst[tgt]) ELSE dst[tgt]

\* ----------------------------------------------------------------- movers
StreamTask == 0
FlushTasks == 1..(MaxFiles + 1)
SwapTask == MaxFiles + 2
Tasks == {StreamTask} \cup FlushTasks \cup {SwapTask}

NoMove ==
    [pc |-> "none", src |-> NoName, compress |-> FALSE, delete |-> FALSE,
     flush |-> FALSE, opened |-> FALSE, created |-> FALSE, rd |-> 0,
     attempts |-> 0, retryRecs |-> 0, failRecs |-> 0, okRecs |-> 0,
     rmTried |-> FALSE, removed |-> FALSE, err |-> "nil", bytes |-> 0,
     ctx |-> "main"]

NewMove(context, source, compress, delete, flush, at) ==
    [NoMove EXCEPT !.pc = at, !.src = source, !.compress = compress,
                   !.delete = delete, !.flush = flush, !.ctx = context]

Running == main.pc \notin {"exit", "panic"}

\* A guard that every caller would win.
CompareAndSwapBlind(active) == TRUE

\* isActive.CompareAndSwap(true, false) wins: the flag was true.
CompareAndSwap(active) == active

\* A call of exportPcapFile (flush=false) before it has started: its file,
\* what lastPcap.Get gave it, its counter value, whether it logged a leak.
NoSup ==
    [pc |-> "idle", file |-> NoName, last |-> NoName, loaded |-> FALSE,
     iteration |-> 0, leaked |-> FALSE, branch |-> "none"]



cfgVars == <<gzip_pcaps, retries_max, lookup>>
envVars == <<created, capture, lockHeld, signalled>>
watchVars == <<watching, watcherClosed, events>>
mapVars == <<counters, lastPcap>>
ctlVars == <<isActive, cancelled, cancelCalls>>
histVars == <<processed, launches, leaks>>
supVars == <<swaps, sup, mon>>

\* ------------------------------------------------- pcap-config: the context
\* The types of the values LoadContext stores: bool, string, []string,
\* uint16, []uint16.
CtxVarTypes == {"bool", "string", "strings", "uint16", "uint16s"}

\* A value of a Go type: the type and which of its sample values, 0 being
\* the zero value of the type (false, "", nil, 0).
Value(typ, val) == [typ |-> typ, val |-> val]

\* ctx.Value(key) for a key nothing was stored under.
Nil == Value("nil", 0)

\* What the context can hold under a key: nothing, the error LoadContext
\* stores when setCtxVar fails, or the value setCtxVar made.
CtxValues ==
    {Nil, Value("error", 0)}
        \cup {Value(typ, val) : typ \in CtxVarTypes, val \in 0..MaxValue}

\* What a getter returns when it returns an error.
Zero(typ) == Value(typ, 0)

\* getCtxVar of pcap-config/internal/config: the unavailable-key error for
\* nil, the config error for a stored error, and the illegal-key error with
\* a nil value for everything else.
getCtxVar(value) ==
    IF value = Nil THEN [v |-> Nil, err |-> "unavailable"]
    ELSE IF value.typ = "error" THEN [v |-> Nil, err |-> "config"]
    ELSE [v |-> Nil, err |-> "illegal"]

\* GetBoolean, GetString, GetStrings, GetUint16, GetUint16s built on
\* getCtxVar: its error if any, else the type assertion.
Get(typ, value) ==
    LET got == getCtxVar(value) IN
    IF got.err # "nil" THEN [v |-> Zero(typ), err |-> got.err]
    ELSE IF got.v.typ = typ THEN [v |-> got.v, err |-> "nil"]
    ELSE [v |-> Zero(typ), err |-> "invalid"]

\* The same five getters where they read ctx.Value(key) themselves: the
\* type assertion first, then the stored error, then the invalid type.
GetDirect(typ, value) ==
    IF value.typ = typ THEN [v |-> value, err |-> "nil"]
    ELSE IF value.typ = "error" THEN [v |-> Zero(typ), err |-> "config"]
    ELSE [v |-> Zero(typ), err |-> "invalid"]

\* GetBooleanOrDefault, GetStringOrDefault: the getter's value when it
\* returned no error, else the default.
OrDefault(got, defaultValue) ==
    IF got.err = "nil" THEN [v |-> got.v, err |-> "nil"]
    ELSE [v |-> defaultValue, err |-> "nil"]

GetBoolean(value) == Get("bool", value)
GetString(value) == Get("string", value)
GetStrings(value) == Get("strings", value)
GetUint16(value) == Get("uint16", value)
GetUint16s(value) == Get("uint16s", value)
GetBooleanOrDefault(value, defaultValue) == OrDefault(GetBoolean(value), defaultValue)
GetStringOrDefault(value, defaultValue) == OrDefault(GetString(value), defaultValue)

\* The getter of a type, by name.
Getter(typ, value) ==
    CASE typ = "bool" -> GetBoolean(value)
      [] typ = "string" -> GetString(value)
      [] typ = "strings" -> GetStrings(value)
      [] typ = "uint16" -> GetUint16(value)
      [] typ = "uint16s" -> GetUint16s(value)

\* No context loaded, no getter called.
NoLookup ==
    [pc |-> "idle", value |-> Nil, direct |-> FALSE, typ |-> "nil",
     orDefault |-> FALSE, defaultValue |-> Nil, v |-> Nil, err |-> "nil"]

\* ------------------------------------------------------------------- Init
\* The state at the top of main, after flag.Parse and the creation of the
\* maps, the signal channel, the watcher, the context and the WaitGroup.
Init ==
    /\ gzip_pcaps \in BOOLEAN
    /\ retries_max \in 0..MaxRetriesMax
    /\ srcDir = {}
    /\ dst = <<>>
    /\ created = {}
    /\ capture = "running"
    /\ lockHeld = TRUE
    /\ signalled = FALSE
    /\ watching = FALSE
    /\ watcherClosed = FALSE
    /\ events = <<>>
    /\ counters = <<>>
    /\ lastPcap = <<>>
    /\ isActive = FALSE
    /\ cancelled = FALSE
    /\ cancelCalls = 0
    /\ flushCtxDone = FALSE
    /\ wg = 0
    /\ main = [pc |-> "init", err |-> FALSE, pending |-> 0, first |-> <<>>]
    /\ el = [pc |-> "idle", event |-> NoName, op |-> "", last |-> NoName,
             loaded |-> FALSE, iteration |-> 0]
    /\ sg = [pc |-> "idle", timer |-> "off"]
    /\ mv = [t \in Tasks |-> NoMove]
    /\ processed = <<>>
    /\ launches = <<>>
    /\ copied = {}
    /\ leaks = 0
    /\ faults = 0
    /\ swaps = <<>>
    /\ sup = NoSup
    /\ mon = [pc |-> "idle", log |-> <<>>]
    /\ lookup = NoLookup

\* ----------------------------------------------------------- movePcapToGcs
\* A flush task that would return without running the deferred wg.Done.
ReturnHolding(m) == [m EXCEPT !.pc = "ret"]

\* The return of movePcapToGcs.  A flush task returns from exportPcapFile
\* with it, which runs the deferred wg.Done; the streaming call goes on to
\* swap the active segment.
Return(m) == [m EXCEPT !.pc = IF m.flush THEN "done" ELSE "ret"]

\* A task that would release the WaitGroup only when its move succeeded.
WgDoneOnSuccess(t) ==
    wg' = IF mv'[t].pc = "done" /\ mv'[t].err = "nil" THEN wg - 1 ELSE wg

\* The deferred wg.Done of the flush task t, when the step ends the task.
WgDone(t) == wg' = IF mv'[t].pc = "done" THEN wg - 1 ELSE wg

\* A mover that would go on to the retry loop after a failed os.OpenFile.
OpenOrCreateIgnored(m, what) == [m EXCEPT !.err = what, !.pc = "retry"]

\* A failed os.OpenFile of the source or of the destination: the failure is
\* logged and the move returns at once.
OpenOrCreateFailed(m, what) ==
    Return([m EXCEPT !.failRecs = @ + 1, !.err = what])

\* A retry loop that would give up one attempt short of retries_max.
RetryExhaustedEarly(attempts, max) == max # 0 /\ attempts + 1 = max

\* retry.Attempts(*retries_max): 0 retries until success; otherwise the loop
\* ends with the attempt whose index is attempts-1.
RetryExhausted(attempts, max) == max # 0 /\ attempts = max

\* The mover once the retry loop has returned an error: both files are
\* closed, the failure is logged, no byte count is reported.
CopyFailed(m, what) ==
    Return([m EXCEPT !.failRecs = @ + 1, !.err = what, !.bytes = 0])

\* A mover that would return after the copy whatever was asked of it.
CopySucceededKeeping(m, n) == Return([m EXCEPT !.okRecs = @ + 1, !.bytes = n])

\* The mover once io.Copy has returned nil for n bytes: COPIED is logged and
\* the source is removed next when deletion was requested.
CopySucceeded(m, n) ==
    IF m.delete
    THEN [m EXCEPT !.okRecs = @ + 1, !.bytes = n, !.pc = "remove"]
    ELSE Return([m EXCEPT !.okRecs = @ + 1, !.bytes = n])

\* An OnRetry callback that would log nothing.
OnRetrySilent(m) == m

\* retry.OnRetry: one record per failed attempt.
OnRetry(m) == [m EXCEPT !.retryRecs = @ + 1]

\* A flush branch that would count the file as a creation of its key.
FlushCountersBumped(map, name) ==
    IF FindStringSubmatch(name) = <<>> THEN map
    ELSE LET key == SubSeq(FindStringSubmatch(name), 2, 4) IN
         (key :> (IF key \in DOMAIN map THEN map[key] ELSE 0) + 1) @@ map

\* The counters after the flush branch of exportPcapFile: it returns before
\* counters.GetOrCompute, and of lastPcap it only reads.
FlushCounters(map, name) == map

\* A flush branch that would take every path for a segment.
FlushUnmatchedNever(flush, name) == FALSE

\* rMatch := pcapDotExt.FindStringSubmatch(*srcFile), and the return for
\* fewer than three groups, as a flush task meets it.
FlushUnmatched(flush, name) == flush /\ ~pcapDotExtMatch(name)

\* A guard that would refuse the flush once the watcher is inactive.
FlushRefusedInactive(flush, active) == flush /\ ~active

\* if flush && isActive.Load() { return }
FlushRefused(flush, active) == flush /\ active

\* A flush task refuses to run while the watcher is marked active, and
\* returns for a path that does not match; then, as for the streaming
\* export, the source is opened (os.O_RDONLY|os.O_EXCL).
MvOpen(t) ==
    /\ Running
    /\ mv[t].pc = "open"
    /\ \E fault \in BOOLEAN :
        LET m == mv[t]
            refused == FlushRefused(m.flush, isActive)
            nomatch == FlushUnmatched(m.flush, m.src)
        IN
        /\ fault => /\ faults < MaxFaults
                    /\ m.src \in srcDir
                    /\ ~refused /\ ~nomatch
        /\ faults' = IF fault THEN faults + 1 ELSE faults
        /\ mv' = [mv EXCEPT ![t] =
                    IF refused THEN [m EXCEPT !.pc = "done", !.err = "refused"]
                    ELSE IF nomatch THEN [m EXCEPT !.pc = "done", !.err = "nomatch"]
                    ELSE IF m.src \in srcDir /\ ~fault
                    THEN [m EXCEPT !.opened = TRUE, !.pc = "create"]
                    ELSE OpenOrCreateFailed(m, "open")]
    /\ counters' = IF mv[t].flush THEN FlushCounters(counters, mv[t].src)
                   ELSE counters
    /\ WgDone(t)
    /\ UNCHANGED <<cfgVars, supVars,
                   envVars, watchVars, lastPcap, ctlVars, flushCtxDone,
                   histVars, srcDir, dst, main, el, sg, copied>>

\* An open of the destination that would truncate an existing file.
CreateTruncating(tgt, files) == TRUE

\* os.O_CREATE|os.O_EXCL succeeds: no file of that name exists.
CreateExclusive(tgt, files) == tgt \notin files

\* The destination is created (os.O_RDWR|os.O_CREATE|os.O_EXCL).
MvCreate(t) ==
    /\ Running
    /\ mv[t].pc = "create"
    /\ LET tgt == TargetName(mv[t].src, mv[t].compress) IN
       \E fault \in BOOLEAN :
        /\ fault => (faults < MaxFaults /\ tgt \notin DOMAIN dst)
        /\ faults' = IF fault THEN faults + 1 ELSE faults
        /\ IF CreateExclusive(tgt, DOMAIN dst) /\ ~fault
           THEN /\ dst' = (tgt :> <<>>) @@ dst
                /\ mv' = [mv EXCEPT ![t] = [@ EXCEPT !.created = TRUE, !.pc = "retry"]]
           ELSE /\ dst' = dst
                /\ mv' = [mv EXCEPT ![t] = OpenOrCreateFailed(@, "create")]
    /\ WgDone(t)
    /\ UNCHANGED <<cfgVars, supVars,
                   envVars, watchVars, mapVars, ctlVars, flushCtxDone,
                   histVars, srcDir, main, el, sg, copied>>

\* The context a move's retry loop observes is done: the context main
\* cancels, or the 5 s context of the terminal flush, which may expire at
\* any time.
CtxObservedDone(t) ==
    /\ mv[t].ctx = "flush" \/ cancelled
    /\ flushCtxDone' = (flushCtxDone \/ mv[t].ctx = "flush")

\* The same context is seen not done.
CtxObservedLive(t) ==
    IF mv[t].ctx = "flush" THEN ~flushCtxDone ELSE ~cancelled

\* retry.DoWithData gives up before the first attempt when the context is
\* already done.
MvCtxBeforeFirst(t) ==
    /\ Running
    /\ mv[t].pc = "retry"
    /\ mv[t].attempts = 0
    /\ CtxObservedDone(t)
    /\ mv' = [mv EXCEPT ![t] = CopyFailed(@, "ctx")]
    /\ WgDone(t)
    /\ UNCHANGED <<cfgVars, supVars,
                   envVars, watchVars, mapVars, ctlVars, histVars,
                   srcDir, dst, main, el, sg, copied, faults>>

\* One io.Copy that reaches the end of the source and returns nil.
MvCopyOk(t) ==
    /\ Running
    /\ mv[t].pc = "retry"
    /\ mv[t].attempts > 0 \/ CtxObservedLive(t)
    /\ LET m == mv[t]
           tgt == TargetName(m.src, m.compress)
           rest == SubSeq(Content(m.src), m.rd + 1, SegLen)
       IN /\ dst' = [dst EXCEPT ![tgt] = @ \o Encode(m.compress, rest)]
          /\ mv' = [mv EXCEPT ![t] =
                      CopySucceeded([m EXCEPT !.attempts = @ + 1, !.rd = SegLen],
                                    Len(rest))]
          /\ copied' = copied \cup {[src |-> m.src, tgt |-> tgt, by |-> t]}
    /\ WgDone(t)
    /\ UNCHANGED <<cfgVars, supVars,
                   envVars, watchVars, mapVars, ctlVars, flushCtxDone,
                   histVars, srcDir, main, el, sg, faults>>

\* One io.Copy that returns an error after reading r chunks of the source
\* and writing w of them: the source offset and the destination keep what
\* the attempt did.
MvCopyFail(t) ==
    /\ Running
    /\ mv[t].pc = "retry"
    /\ mv[t].attempts > 0 \/ CtxObservedLive(t)
    /\ faults < MaxFaults
    /\ faults' = faults + 1
    /\ LET m == mv[t]
           tgt == TargetName(m.src, m.compress)
       IN \E r \in 0..(SegLen - m.rd) : \E w \in 0..r :
           /\ dst' = [dst EXCEPT ![tgt] =
                        @ \o Encode(m.compress,
                                    SubSeq(Content(m.src), m.rd + 1, m.rd + w))]
           /\ LET tried == OnRetry([m EXCEPT !.attempts = @ + 1, !.rd = @ + r])
              IN mv' = [mv EXCEPT ![t] =
                          IF RetryExhausted(tried.attempts, retries_max)
                          THEN CopyFailed(tried, "copy")
                          ELSE [tried EXCEPT !.pc = "delay"]]
    /\ WgDone(t)
    /\ UNCHANGED <<cfgVars, supVars,
                   envVars, watchVars, mapVars, ctlVars, flushCtxDone,
                   histVars, srcDir, main, el, sg, copied>>

\* The fixed delay between two attempts has elapsed.
MvDelayElapsed(t) ==
    /\ Running
    /\ mv[t].pc = "delay"
    /\ mv' = [mv EXCEPT ![t] = [@ EXCEPT !.pc = "retry"]]
    /\ UNCHANGED <<cfgVars, supVars,
                   envVars, watchVars, mapVars, ctlVars, flushCtxDone,
                   histVars, srcDir, dst, wg, main, el, sg, copied, faults>>

\* The context is done while the retry loop waits between two attempts.
MvDelayCtx(t) ==
    /\ Running
    /\ mv[t].pc = "delay"
    /\ CtxObservedDone(t)
    /\ mv' = [mv EXCEPT ![t] = CopyFailed(@, "ctx")]
    /\ WgDone(t)
    /\ UNCHANGED <<cfgVars, supVars,
                   envVars, watchVars, mapVars, ctlVars, histVars,
                   srcDir, dst, main, el, sg, copied, faults>>

\* A mover whose failed os.Remove would fail the move.
RemoveFailedFatal(m) == Return([m EXCEPT !.rmTried = TRUE, !.err = "remove"])

\* The mover after a failed os.Remove: the failure is logged and the move
\* returns nil all the same.
RemoveFailed(m) == Return([m EXCEPT !.rmTried = TRUE])

\* os.Remove of the source after a successful copy; a failure is logged only.
MvRemove(t) ==
    /\ Running
    /\ mv[t].pc = "remove"
    /\ \E fault \in BOOLEAN :
        /\ fault => (faults < MaxFaults /\ mv[t].src \in srcDir)
        /\ faults' = IF fault THEN faults + 1 ELSE faults
        /\ IF mv[t].src \in srcDir /\ ~fault
           THEN /\ srcDir' = srcDir \ {mv[t].src}
                /\ mv' = [mv EXCEPT ![t] =
                            Return([@ EXCEPT !.rmTried = TRUE, !.removed = TRUE])]
           ELSE /\ srcDir' = srcDir
                /\ mv' = [mv EXCEPT ![t] = RemoveFailed(@)]
    /\ WgDone(t)
    /\ UNCHANGED <<cfgVars, supVars,
                   envVars, watchVars, mapVars, ctlVars, flushCtxDone,
                   histVars, dst, main, el, sg, copied>>

Move(t) ==
    \/ MvOpen(t)
    \/ MvCreate(t)
    \/ MvCtxBeforeFirst(t)
    \/ MvCopyOk(t)
    \/ MvCopyFail(t)
    \/ MvDelayElapsed(t)
    \/ MvDelayCtx(t)
    \/ MvRemove(t)

\* ----------------------------------------------------------- exportPcapFile
MapGet(map, key) == IF key \in DOMAIN map THEN map[key] ELSE NoName

MapSet(map, key, val) == (key :> val) @@ map

\* A streaming path that would export on a key's first event as well.
StreamBranchNoFirst(iteration, loaded, lastPcapFileName) == "export"

\* A streaming path that would export whenever the counter is past one.
StreamBranchNoMissing(iteration, loaded, lastPcapFileName) ==
    IF iteration = 1 THEN "first" ELSE "export"

\* The three ways of the streaming path once the counter is incremented.
StreamBranch(iteration, loaded, lastPcapFileName) ==
    IF iteration = 1 THEN "first"
    ELSE IF ~loaded \/ lastPcapFileName = NoName THEN "missing"
    ELSE "export"

\* A streaming path that would export the file just created.
ExportSourceCurrent(lastPcapFileName, srcFile) == srcFile

\* The file the streaming path hands to movePcapToGcs.
ExportSource(lastPcapFileName, srcFile) == lastPcapFileName

\* A compare-and-swap that would fail exactly when the old value is current.
SwapInverted(map, key, old) == key \in DOMAIN map /\ map[key] = old

\* A compare-and-swap of the active segment that would never succeed.
SwapAlwaysFails(map, key, old) == TRUE

\* lastPcap.CompareAndSwap(key, old, new) fails: the "leaked" branch.
SwapFails(map, key, old) == ~(key \in DOMAIN map /\ map[key] = old)

\* A streaming path that would clear the active segment after an export.
ActiveCleared(map, key, old, new) == [map EXCEPT ![key] = NoName]

\* A streaming path that would leave the active segment as it was.
ActiveUnchanged(map, key, old, new) == map

\* The map after the compare-and-swap, or after the Set that repairs it.
ActiveAfterSwap(map, key, old, new) ==
    IF SwapFails(map, key, old) THEN MapSet(map, key, new)
    ELSE [map EXCEPT ![key] = new]

\* The value of ctx the event loop passes to exportPcapFile: the variable is
\* shared with main, which assigns the flush context to it without
\* synchronisation, so a call made after that may get either context.
StreamCtx ==
    IF main.pc \in {"wait2", "wait3"} THEN {"main", "flush"} ELSE {"main"}

\* The streaming call of exportPcapFile up to its first return or to the
\* call of movePcapToGcs: match, lastPcap.Get, counter increment, branch.
ELDispatch ==
    /\ Running
    /\ el.pc = "dispatch"
    /\ LET name == el.event
           key == KeyOf(name)
           loaded == key \in DOMAIN lastPcap
           last == MapGet(lastPcap, key)
           iteration == (IF key \in DOMAIN counters THEN counters[key] ELSE 0) + 1
           branch == StreamBranch(iteration, loaded, last)
       IN IF ~pcapDotExtMatch(name)
          THEN /\ wg' = wg - 1
               /\ el' = [el EXCEPT !.pc = "check"]
               /\ UNCHANGED <<mapVars, processed, launches, mv>>
          ELSE /\ counters' = MapSet(counters, key, iteration)
               /\ processed' = Append(processed, name)
               /\ IF branch = "export"
                  THEN /\ launches' = Append(launches,
                              [trigger |-> name, src |-> ExportSource(last, name),
                               iteration |-> iteration])
                       /\ \E context \in StreamCtx :
                            mv' = [mv EXCEPT ![StreamTask] =
                                     NewMove(context, ExportSource(last, name),
                                             gzip_pcaps, TRUE, FALSE, "open")]
                       /\ el' = [el EXCEPT !.pc = "move", !.last = last,
                                           !.loaded = loaded, !.iteration = iteration]
                       /\ UNCHANGED <<lastPcap, wg>>
                  ELSE /\ lastPcap' = MapSet(lastPcap, key, name)
                       /\ wg' = wg - 1
                       /\ el' = [el EXCEPT !.pc = "check", !.last = last,
                                           !.loaded = loaded, !.iteration = iteration]
                       /\ UNCHANGED <<launches, mv>>
    /\ UNCHANGED <<cfgVars, supVars,
                   envVars, watchVars, ctlVars, flushCtxDone, leaks,
                   srcDir, dst, main, sg, copied, faults>>

\* moveErr == nil: what the streaming call logs ("exported" or "failed to
\* export") and returns.
ExportReturn(m) == m.err = "nil"

\* What a streaming call leaves in the logs when it swaps the active segment
\* and returns: its file, the move it made, its leak record if any.
SwapRecord(who, file, m, leaked) ==
    [by |-> who, file |-> file, src |-> m.src, ok |-> ExportReturn(m),
     err |-> m.err, rmFailed |-> m.rmTried /\ ~m.removed, leaked |-> leaked]

\* A call that would go on to the swap while its move is still running.
MoveStarted(m) == m.pc # "none"

\* The synchronous call of movePcapToGcs has returned.
MoveReturned(m) == m.pc = "ret"

\* The streaming call after movePcapToGcs has returned: the outcome is
\* logged, the active segment is swapped, the WaitGroup is released.
ELFinish ==
    /\ Running
    /\ el.pc = "move"
    /\ MoveReturned(mv[StreamTask])
    /\ LET key == KeyOf(el.event) IN
        /\ leaks' = IF SwapFails(lastPcap, key, el.last) THEN leaks + 1 ELSE leaks
        /\ lastPcap' = ActiveAfterSwap(lastPcap, key, el.last, el.event)
        /\ swaps' = Append(swaps, SwapRecord("loop", el.event, mv[StreamTask],
                                             SwapFails(lastPcap, key, el.last)))
    /\ wg' = wg - 1
    /\ el' = [el EXCEPT !.pc = "check"]
    /\ mv' = [mv EXCEPT ![StreamTask] = NoMove]
    /\ UNCHANGED <<cfgVars, sup, mon, envVars, watchVars, ctlVars, flushCtxDone,
                   counters, processed, launches, srcDir, dst, main, sg, copied,
                   faults>>

\* ------------------------------------------- a concurrent streaming call
\* The file of the second call: a segment of the key of the loop's event, of
\* a name the capture process does not produce.
SupFile == Seg(MaxFiles + MaxStreamFiles, el.event.ext)

\* A second call exportPcapFile(ctx, wg, pcapDotExt, &SupFile, ..., false)
\* made while the loop's call is in movePcapToGcs: it reads the same active
\* segment, increments the counter and calls movePcapToGcs for that segment.
SupLoad ==
    /\ Running
    /\ sup.pc = "idle"
    /\ el.pc = "move"
    /\ LET key == KeyOf(SupFile)
           loaded == key \in DOMAIN lastPcap
           last == MapGet(lastPcap, key)
           iteration == (IF key \in DOMAIN counters THEN counters[key] ELSE 0) + 1
       IN
        /\ StreamBranch(iteration, loaded, last) = "export"
        /\ counters' = MapSet(counters, key, iteration)
        /\ sup' = [sup EXCEPT !.pc = "move", !.file = SupFile, !.last = last,
                              !.loaded = loaded, !.iteration = iteration,
                              !.branch = "export"]
        /\ mv' = [mv EXCEPT ![SwapTask] =
                    NewMove("main", ExportSource(last, SupFile), gzip_pcaps,
                            TRUE, FALSE, "open")]
    /\ wg' = wg + 1
    /\ UNCHANGED <<cfgVars, swaps, mon, envVars, watchVars, lastPcap, ctlVars,
                   flushCtxDone, histVars, srcDir, dst, main, el, sg, copied,
                   faults>>

\* A second call exportPcapFile(ctx, wg, pcapDotExt, &SupFile, ..., false)
\* made while the loop's call has not yet read the active segment: its
\* lastPcap.Get.
SupGet ==
    /\ Running
    /\ sup.pc = "idle"
    /\ el.pc = "dispatch"
    /\ pcapDotExtMatch(el.event)
    /\ LET key == KeyOf(SupFile) IN
        sup' = [sup EXCEPT !.pc = "got", !.file = SupFile,
                           !.last = MapGet(lastPcap, key),
                           !.loaded = key \in DOMAIN lastPcap]
    /\ wg' = wg + 1
    /\ UNCHANGED <<cfgVars, swaps, mon, envVars, watchVars, mapVars, ctlVars,
                   flushCtxDone, histVars, srcDir, dst, main, el, sg, mv, copied,
                   faults>>

\* The second call from the counter increment to its first return or to the
\* call of movePcapToGcs.  On the first event of a key, and when no active
\* segment was read (the "unavailable" error record), the file is set as
\* the active segment and the call returns false.
SupBranch ==
    /\ Running
    /\ sup.pc = "got"
    /\ LET key == KeyOf(sup.file)
           iteration == (IF key \in DOMAIN counters THEN counters[key] ELSE 0) + 1
           branch == StreamBranch(iteration, sup.loaded, sup.last)
       IN
        /\ counters' = MapSet(counters, key, iteration)
        /\ IF branch = "export"
           THEN /\ sup' = [sup EXCEPT !.pc = "move", !.iteration = iteration,
                                      !.branch = branch]
                /\ mv' = [mv EXCEPT ![SwapTask] =
                            NewMove("main", ExportSource(sup.last, sup.file),
                                    gzip_pcaps, TRUE, FALSE, "open")]
                /\ UNCHANGED <<lastPcap, wg>>
           ELSE /\ sup' = [sup EXCEPT !.pc = "done", !.iteration = iteration,
                                      !.branch = branch]
                /\ lastPcap' = MapSet(lastPcap, key, sup.file)
                /\ wg' = wg - 1
                /\ UNCHANGED mv
    /\ UNCHANGED <<cfgVars, swaps, mon, envVars, watchVars, ctlVars,
                   flushCtxDone, histVars, srcDir, dst, main, el, sg, copied,
                   faults>>

\* The second call after movePcapToGcs has returned: the compare-and-swap.
\* When it succeeds the call returns; when it fails the leak is logged.
SupSwap ==
    /\ Running
    /\ sup.pc = "move"
    /\ mv[SwapTask].pc = "ret"
    /\ LET key == KeyOf(sup.file)
           fails == SwapFails(lastPcap, key, sup.last)
       IN
        /\ swaps' = Append(swaps, SwapRecord("sup", sup.file, mv[SwapTask], fails))
        /\ leaks' = IF fails THEN leaks + 1 ELSE leaks
        /\ lastPcap' = IF fails THEN lastPcap ELSE [lastPcap EXCEPT ![key] = sup.file]
        /\ sup' = [sup EXCEPT !.pc = IF fails THEN "set" ELSE "done", !.leaked = fails]
        /\ wg' = IF fails THEN wg ELSE wg - 1
    /\ mv' = [mv EXCEPT ![SwapTask] = NoMove]
    /\ UNCHANGED <<cfgVars, mon, envVars, watchVars, counters, ctlVars,
                   flushCtxDone, processed, launches, srcDir, dst, main, el, sg,
                   copied, faults>>

\* lastPcap.Set(key, *srcFile) of the leak branch; the call returns.
SupSet ==
    /\ Running
    /\ sup.pc = "set"
    /\ lastPcap' = MapSet(lastPcap, KeyOf(sup.file), sup.file)
    /\ sup' = [sup EXCEPT !.pc = "done"]
    /\ wg' = wg - 1
    /\ UNCHANGED <<cfgVars, swaps, mon, envVars, watchVars, counters, ctlVars,
                   flushCtxDone, histVars, srcDir, dst, main, el, sg, mv, copied,
                   faults>>

\* ---------------------------------------------------------------- event loop
\* for isActive.Load()
ELCheck ==
    /\ Running
    /\ el.pc = "check"
    /\ el' = [el EXCEPT !.pc = IF isActive THEN "select" ELSE "done"]
    /\ UNCHANGED <<cfgVars, supVars,
                   envVars, watchVars, mapVars, ctlVars, flushCtxDone,
                   histVars, srcDir, dst, wg, main, sg, mv, copied, faults>>

\* case event, ok := <-watcher.Events, with an event in the buffer.
ELRecv ==
    /\ Running
    /\ el.pc = "select"
    /\ events # <<>>
    /\ events' = Tail(events)
    /\ LET event == Head(events)
           name == event.name
       IN
       IF HasCreate(event) /\ pcapDotExtMatch(name)
       THEN /\ el' = [el EXCEPT !.pc = "add", !.event = name, !.op = event.op]
            /\ UNCHANGED isActive
       ELSE IF /\ HasCreate(event)
               /\ tcpdumpwExitSignalMatch(name)
               /\ CompareAndSwap(isActive)
       THEN /\ el' = [el EXCEPT !.pc = "sentinel", !.event = name, !.op = event.op]
            /\ isActive' = FALSE
       ELSE /\ el' = [el EXCEPT !.pc = "check", !.event = name, !.op = event.op]
            /\ UNCHANGED isActive
    /\ UNCHANGED <<cfgVars, supVars,
                   envVars, watching, watcherClosed, mapVars, cancelled,
                   cancelCalls, flushCtxDone, histVars, srcDir, dst, wg, main,
                   sg, mv, copied, faults>>

\* A closed channel of the watcher is received from: the loop returns.
ELClosed ==
    /\ Running
    /\ el.pc = "select"
    /\ watcherClosed
    /\ el' = [el EXCEPT !.pc = "done"]
    /\ UNCHANGED <<cfgVars, supVars,
                   envVars, watchVars, mapVars, ctlVars, flushCtxDone,
                   histVars, srcDir, dst, wg, main, sg, mv, copied, faults>>

\* wg.Add(1) before the inline call of exportPcapFile.
ELAdd ==
    /\ Running
    /\ el.pc = "add"
    /\ wg' = wg + 1
    /\ el' = [el EXCEPT !.pc = "dispatch"]
    /\ UNCHANGED <<cfgVars, supVars,
                   envVars, watchVars, mapVars, ctlVars, flushCtxDone,
                   histVars, srcDir, dst, main, sg, mv, copied, faults>>

\* A handler that would leave the sentinel file in place.
KeepSignal(dir, name) == dir

\* os.Remove(event.Name): the directory without the sentinel file.
RemoveSignal(dir, name) == dir \ {name}

\* The sentinel was detected: it is removed and the context is cancelled.
ELSentinel ==
    /\ Running
    /\ el.pc = "sentinel"
    /\ srcDir' = RemoveSignal(srcDir, el.event)
    /\ cancelled' = TRUE
    /\ cancelCalls' = cancelCalls + 1
    /\ el' = [el EXCEPT !.pc = "done"]
    /\ UNCHANGED <<cfgVars, supVars,
                   envVars, watchVars, mapVars, isActive, flushCtxDone,
                   histVars, dst, wg, main, sg, mv, copied, faults>>

\* ---------------------------------------------------------------------- main
\* filepath.Walk visits the names of a directory in lexical order: the
\* sentinel's name sorts before every segment's, segments sort by timestamp.
RECURSIVE WalkOrder(_)
WalkOrder(S) ==
    IF S = {} THEN <<>>
    ELSE LET first == CHOOSE n \in S : \A o \in S : n.ts <= o.ts
         IN <<first>> \o WalkOrder(S \ {first})

\* isActive.CompareAndSwap(false, true) and watcher.Add; then the
\* goroutines are started.
MainInit ==
    /\ main.pc = "init"
    /\ \E addFails \in BOOLEAN :
        /\ watching' = ~addFails
        /\ isActive' = ~addFails
        /\ main' = [main EXCEPT !.pc = "initcheck", !.err = addFails]
    /\ el' = [el EXCEPT !.pc = "check"]
    /\ sg' = [sg EXCEPT !.pc = "wait"]
    /\ mon' = [mon EXCEPT !.pc = "check"]
    /\ UNCHANGED <<cfgVars, swaps, sup,
                   envVars, watcherClosed, events, mapVars, cancelled,
                   cancelCalls, flushCtxDone, histVars, srcDir, dst, wg, mv,
                   copied, faults>>

\* if err == nil {...} else if isActive.CompareAndSwap(true, false) {...}
MainInitCheck ==
    /\ main.pc = "initcheck"
    /\ main' = [main EXCEPT !.pc = "await"]
    /\ IF main.err /\ CompareAndSwap(isActive)
       THEN /\ isActive' = FALSE
            /\ watcherClosed' = TRUE
            /\ watching' = FALSE
            /\ cancelled' = TRUE
            /\ cancelCalls' = cancelCalls + 1
       ELSE UNCHANGED <<isActive, watcherClosed, watching, cancelled, cancelCalls>>
    /\ UNCHANGED <<cfgVars, supVars,
                   envVars, events, mapVars, flushCtxDone, histVars,
                   srcDir, dst, wg, el, sg, mv, copied, faults>>

\* <-ctx.Done(); ticker.Stop, watcher.Remove, watcher.Close
MainStop ==
    /\ main.pc = "await"
    /\ cancelled
    /\ watching' = FALSE
    /\ watcherClosed' = TRUE
    /\ main' = [main EXCEPT !.pc = "wait1"]
    /\ UNCHANGED <<cfgVars, supVars,
                   envVars, events, mapVars, ctlVars, flushCtxDone,
                   histVars, srcDir, dst, wg, el, sg, mv, copied, faults>>

\* wg.Wait(): the regular exports have returned.
MainWait1 ==
    /\ main.pc = "wait1"
    /\ wg = 0
    /\ main' = [main EXCEPT !.pc = "scan"]
    /\ UNCHANGED <<cfgVars, supVars,
                   envVars, watchVars, mapVars, ctlVars, flushCtxDone,
                   histVars, srcDir, dst, wg, el, sg, mv, copied, faults>>

\* A flush task that would delete its source after the copy.
FlushTaskDeleting(path) == NewMove("flush", path, FALSE, TRUE, TRUE, "open")

\* go exportPcapFile(ctx, wg, pcapDotExt, &path, compress, delete, true) as
\* main calls flushSrcDir: compress false, delete false.
FlushTask(path) == NewMove("flush", path, FALSE, FALSE, TRUE, "open")

\* flushSrcDir: the walk adds one to the WaitGroup and starts one flush task
\* (compress and delete false, flush true) for every file of the directory.
MainScan ==
    /\ main.pc = "scan"
    /\ LET walk == WalkOrder(srcDir) IN
        /\ main' = [main EXCEPT !.pc = "wait2", !.pending = Len(walk)]
        /\ wg' = wg + Len(walk)
        /\ mv' = [t \in Tasks |->
                    IF t \in 1..Len(walk)
                    THEN FlushTask(walk[t])
                    ELSE mv[t]]
    /\ UNCHANGED <<cfgVars, supVars,
                   envVars, watchVars, mapVars, ctlVars, flushCtxDone,
                   histVars, srcDir, dst, el, sg, copied, faults>>

\* The flush tasks the terminal scan has started.
Started == {t \in FlushTasks : mv[t].pc # "none"}

\* flushSrcDir called a second time, once the tasks of the first scan have
\* returned; how each of those ended is kept per file.
MainRescan ==
    /\ main.pc = "wait2"
    /\ wg = 0
    /\ LET walk == WalkOrder(srcDir)
           ended == [f \in {mv[t].src : t \in Started} |->
                        (CHOOSE t \in Started : mv[t].src = f)]
       IN
        /\ main' = [main EXCEPT !.pc = "wait3", !.pending = Len(walk),
                                !.first = [f \in DOMAIN ended |-> mv[ended[f]].err]]
        /\ wg' = wg + Len(walk)
        /\ mv' = [t \in Tasks |->
                    IF t \in 1..Len(walk) THEN FlushTask(walk[t])
                    ELSE IF t \in FlushTasks THEN NoMove
                    ELSE mv[t]]
    /\ UNCHANGED <<cfgVars, supVars, envVars, watchVars, mapVars, ctlVars,
                   flushCtxDone, histVars, srcDir, dst, el, sg, copied, faults>>

\* wg.Wait() after the second scan; main returns.
MainWait3 ==
    /\ main.pc = "wait3"
    /\ wg = 0
    /\ main' = [main EXCEPT !.pc = "exit"]
    /\ UNCHANGED <<cfgVars, supVars, envVars, watchVars, mapVars, ctlVars,
                   flushCtxDone, histVars, srcDir, dst, wg, el, sg, mv, copied,
                   faults>>

\* wg.Wait(): the flush tasks have returned; main returns.
MainWait2 ==
    /\ main.pc = "wait2"
    /\ wg = 0
    /\ main' = [main EXCEPT !.pc = "exit"]
    /\ UNCHANGED <<cfgVars, supVars,
                   envVars, watchVars, mapVars, ctlVars, flushCtxDone,
                   histVars, srcDir, dst, wg, el, sg, mv, copied, faults>>

\* ---------------------------------------------------------- memory monitor
\* for isActive.Load()
MonCheck ==
    /\ Running
    /\ mon.pc = "check"
    /\ mon' = [mon EXCEPT !.pc = IF isActive THEN "select" ELSE "done"]
    /\ UNCHANGED <<cfgVars, swaps, sup, envVars, watchVars, mapVars, ctlVars,
                   flushCtxDone, histVars, srcDir, dst, wg, main, el, sg, mv,
                   copied, faults>>

\* case <-ctx.Done(): return
MonCtxDone ==
    /\ Running
    /\ mon.pc = "select"
    /\ cancelled
    /\ mon' = [mon EXCEPT !.pc = "done"]
    /\ UNCHANGED <<cfgVars, swaps, sup, envVars, watchVars, mapVars, ctlVars,
                   flushCtxDone, histVars, srcDir, dst, wg, main, el, sg, mv,
                   copied, faults>>

\* The records one tick writes: the errors of the two reads are discarded,
\* and when flushBuffers fails the tick is left with continue; otherwise the
\* one informational record with the figures is written.
TickRecords(beforeErr, flushErr, afterErr) ==
    IF flushErr THEN <<>> ELSE <<"info">>

\* case <-ticker.C: the memory counter is read, the buffers are flushed,
\* the counter is read again; each of the three may fail.
MonTick ==
    /\ Running
    /\ mon.pc = "select"
    /\ Len(mon.log) < MaxTicks
    /\ \E beforeErr, flushErr, afterErr \in BOOLEAN :
        mon' = [pc |-> "check",
                log |-> Append(mon.log,
                               [before |-> beforeErr, flush |-> flushErr,
                                after |-> afterErr,
                                recs |-> TickRecords(beforeErr, flushErr, afterErr)])]
    /\ UNCHANGED <<cfgVars, swaps, sup, envVars, watchVars, mapVars, ctlVars,
                   flushCtxDone, histVars, srcDir, dst, wg, main, el, sg, mv,
                   copied, faults>>

\* ---------------------------------------------------------- signal goroutine
\* Once the context is cancelled no step of this goroutine has an effect.
\* signal := <-sigChan: a termination signal is delivered and received; the
\* deadline timer is armed.
SigRecv ==
    /\ Running
    /\ sg.pc = "wait"
    /\ ~signalled
    /\ ~cancelled
    /\ signalled' = TRUE
    /\ sg' = [pc |-> "lock", timer |-> "armed"]
    /\ UNCHANGED <<cfgVars, supVars,
                   created, capture, lockHeld, watchVars, mapVars,
                   ctlVars, flushCtxDone, histVars, srcDir, dst, wg, main, el,
                   mv, copied, faults>>

\* The function of time.AfterFunc runs.
TimerFire ==
    /\ Running
    /\ sg.timer = "armed"
    /\ ~cancelled
    /\ sg' = [sg EXCEPT !.timer = "fired"]
    /\ IF CompareAndSwap(isActive)
       THEN /\ isActive' = FALSE
            /\ cancelled' = TRUE
            /\ cancelCalls' = cancelCalls + 1
       ELSE UNCHANGED <<isActive, cancelled, cancelCalls>>
    /\ UNCHANGED <<cfgVars, supVars,
                   envVars, watchVars, mapVars, flushCtxDone, histVars,
                   srcDir, dst, wg, main, el, mv, copied, faults>>

\* TryLockContext returns locked: the capture side has released the lock.
SigLockAcquired ==
    /\ Running
    /\ sg.pc = "lock"
    /\ ~lockHeld
    /\ ~cancelled
    /\ IF CompareAndSwap(isActive)
       THEN /\ isActive' = FALSE
            /\ cancelled' = TRUE
            /\ cancelCalls' = cancelCalls + 1
            /\ sg' = [pc |-> "done",
                      timer |-> IF sg.timer = "armed" THEN "stopped" ELSE sg.timer]
       ELSE /\ sg' = [sg EXCEPT !.pc = "done"]
            /\ UNCHANGED <<isActive, cancelled, cancelCalls>>
    /\ UNCHANGED <<cfgVars, supVars,
                   envVars, watchVars, mapVars, flushCtxDone, histVars,
                   srcDir, dst, wg, main, el, mv, copied, faults>>

\* TryLockContext gives up: the lock is still held and the deadline of the
\* lock context has passed.
SigLockFailed ==
    /\ Running
    /\ sg.pc = "lock"
    /\ lockHeld
    /\ ~cancelled
    /\ sg' = [sg EXCEPT !.pc = "done"]
    /\ UNCHANGED <<cfgVars, supVars,
                   envVars, watchVars, mapVars, ctlVars, flushCtxDone,
                   histVars, srcDir, dst, wg, main, el, mv, copied, faults>>

\* ---------------------------------------------------------------- environment
\* The program reads the source directory for the last time in the terminal
\* scan: what the capture process does afterwards is not followed.
Observed == main.pc \notin {"wait2", "wait3", "exit", "panic"}

\* The extensions of the next segment.  The program treats all extensions
\* alike, so the first segment's is fixed.
NextExts == IF created = {} THEN {"pcap"} ELSE Exts

\* The capture process rotates into a new segment.
EnvCreate(limit) ==
    /\ Observed
    /\ capture = "running"
    /\ Cardinality(created) < limit
    /\ \E ext \in NextExts :
        LET name == Seg(Cardinality(created) + 1, ext) IN
        /\ created' = created \cup {name}
        /\ srcDir' = srcDir \cup {name}
        /\ events' = IF watching THEN Append(events, Event(name, "CREATE"))
                      ELSE events
    /\ UNCHANGED <<cfgVars, supVars, capture, lockHeld, signalled, watching,
                   watcherClosed, mapVars, ctlVars, flushCtxDone, histVars, dst,
                   wg, main, el, sg, mv, copied, faults>>

\* The capture process exits: it releases the lock and creates the sentinel.
EnvExit ==
    /\ Observed
    /\ capture = "running"
    /\ capture' = "stopped"
    /\ lockHeld' = FALSE
    /\ srcDir' = srcDir \cup {Sentinel}
    /\ events' = IF watching THEN Append(events, Event(Sentinel, "CREATE"))
                  ELSE events
    /\ UNCHANGED <<cfgVars, supVars,
                   created, signalled, watching, watcherClosed, mapVars,
                   ctlVars, flushCtxDone, histVars, dst, wg, main, el, sg, mv,
                   copied, faults>>

\* The capture process writes to a segment, or a file that is no segment
\* appears in the directory: the watcher delivers an event that is not the
\* creation of a segment.
EnvOther ==
    /\ Observed
    /\ watching
    /\ Len(events) < MaxPending
    /\ \/ /\ \E name \in srcDir \cap Segments :
                events' = Append(events, Event(name, "WRITE"))
          /\ UNCHANGED srcDir
       \/ /\ events' = Append(events, Event(Other, "CREATE"))
          /\ srcDir' = srcDir \cup {Other}
    /\ UNCHANGED <<cfgVars, supVars, envVars, watching, watcherClosed, mapVars,
                   ctlVars, flushCtxDone, histVars, dst, wg, main, el, sg, mv,
                   copied, faults>>

\* ---------------------------------------------------------------------- Spec
Next ==
    \/ MainInit
    \/ MainInitCheck
    \/ MainStop
    \/ MainWait1
    \/ MainScan
    \/ MainWait2
    \/ ELCheck
    \/ ELRecv
    \/ ELClosed
    \/ ELAdd
    \/ ELDispatch
    \/ ELFinish
    \/ ELSentinel
    \/ SigRecv
    \/ TimerFire
    \/ SigLockAcquired
    \/ SigLockFailed
    \/ EnvCreate(MaxFiles)
    \/ EnvExit
    \/ \E t \in Tasks : Move(t)

\* A whole run: start, streaming, shutdown by sentinel or signal, drain,
\* terminal flush, exit.
Spec == Init /\ [][Next]_vars

\* Scheduling: a goroutine that can take a step eventually takes one, and a
\* call of the mover that can proceed eventually does (every copy attempt
\* returns, every delay ends).  Nothing is assumed of the environment.
MainSteps == MainInit \/ MainInitCheck \/ MainStop \/ MainWait1 \/ MainScan \/ MainWait2

LoopSteps ==
    ELCheck \/ ELRecv \/ ELClosed \/ ELAdd \/ ELDispatch \/ ELFinish \/ ELSentinel

Fairness ==
    /\ WF_vars(MainSteps)
    /\ WF_vars(LoopSteps)
    /\ \A t \in Tasks : WF_vars(Move(t))

\* The configurations followed to the end of a run: compression off, and
\* -retries_max 0 (retry until success) or 1 (a single attempt).
InitLive == Init /\ ~gzip_pcaps /\ retries_max <= 1

SpecLive == InitLive /\ [][Next]_vars /\ Fairness

\* The program while no shutdown is requested: the capture process keeps
\* running and no signal is sent.
NextStream ==
    \/ MainInit
    \/ MainInitCheck
    \/ ELCheck
    \/ ELRecv
    \/ ELAdd
    \/ ELDispatch
    \/ ELFinish
    \/ EnvCreate(MaxStreamFiles)
    \/ MvOpen(StreamTask)
    \/ MvCreate(StreamTask)
    \/ MvCopyOk(StreamTask)
    \/ MvCopyFail(StreamTask)
    \/ MvDelayElapsed(StreamTask)
    \/ MvRemove(StreamTask)

SpecStream == Init /\ [][NextStream]_vars

\* The event loop and the memory monitor up to the cancellation by the
\* sentinel, with one segment created.
NextMonitor ==
    \/ MainInit
    \/ MainInitCheck
    \/ MonCheck
    \/ MonCtxDone
    \/ MonTick
    \/ ELCheck
    \/ ELRecv
    \/ ELAdd
    \/ ELDispatch
    \/ ELSentinel
    \/ EnvCreate(1)
    \/ EnvExit

SpecMonitor == Init /\ [][NextMonitor]_vars

\* The program while no shutdown is requested, with events that are not the
\* creation of a segment among those of the two segments created.
NextEvents ==
    \/ MainInit
    \/ MainInitCheck
    \/ ELCheck
    \/ ELRecv
    \/ ELAdd
    \/ ELDispatch
    \/ ELFinish
    \/ EnvCreate(MaxFiles)
    \/ EnvOther
    \/ MvOpen(StreamTask)
    \/ MvCreate(StreamTask)
    \/ MvCopyOk(StreamTask)
    \/ MvCopyFail(StreamTask)
    \/ MvDelayElapsed(StreamTask)
    \/ MvRemove(StreamTask)

SpecEvents == Init /\ [][NextEvents]_vars

\* The program while no shutdown is requested, with a second streaming call
\* made concurrently with one of the event loop's.
NextSwap ==
    \/ MainInit
    \/ MainInitCheck
    \/ ELCheck
    \/ ELRecv
    \/ ELAdd
    \/ ELDispatch
    \/ ELFinish
    \/ SupLoad
    \/ SupSwap
    \/ SupSet
    \/ EnvCreate(MaxStreamFiles)
    \/ \E t \in {StreamTask, SwapTask} :
        \/ MvOpen(t)
        \/ MvCreate(t)
        \/ MvCopyOk(t)
        \/ MvCopyFail(t)
        \/ MvDelayElapsed(t)
        \/ MvRemove(t)

SpecSwap == Init /\ [][NextSwap]_vars

\* The program while no shutdown is requested, with a second streaming call
\* that reads the active segment before the event loop's call does.
NextOverlap ==
    \/ MainInit
    \/ MainInitCheck
    \/ ELCheck
    \/ ELRecv
    \/ ELAdd
    \/ ELDispatch
    \/ ELFinish
    \/ SupGet
    \/ SupBranch
    \/ SupSwap
    \/ SupSet
    \/ EnvCreate(MaxFiles)
    \/ \E t \in {StreamTask, SwapTask} :
        \/ MvOpen(t)
        \/ MvCreate(t)
        \/ MvCopyOk(t)
        \/ MvCopyFail(t)
        \/ MvDelayElapsed(t)
        \/ MvRemove(t)

SpecOverlap == Init /\ [][NextOverlap]_vars

\* The program shut down by the sentinel, with the terminal scan made twice:
\* no signal is sent, so the watcher is never closed under the event loop.
NextRescan ==
    \/ MainInit
    \/ MainInitCheck
    \/ MainStop
    \/ MainWait1
    \/ MainScan
    \/ MainRescan
    \/ MainWait3
    \/ ELCheck
    \/ ELRecv
    \/ ELAdd
    \/ ELDispatch
    \/ ELFinish
    \/ ELSentinel
    \/ EnvCreate(MaxFiles)
    \/ EnvExit
    \/ \E t \in Tasks : Move(t)

SpecRescan == Init /\ [][NextRescan]_vars

\* ------------------------------------------------ pcap-config: the getters
\* LoadContext: context.WithValue(ctx, k, value) for the value setCtxVar
\* made, context.WithValue(ctx, k, err) when it failed; a key that is not
\* in CtxVars gets nothing.
LoadContext ==
    /\ lookup.pc = "idle"
    /\ \E value \in CtxValues :
        lookup' = [lookup EXCEPT !.pc = "loaded", !.value = value]
    /\ UNCHANGED <<gzip_pcaps, retries_max, supVars, envVars, watchVars,
                   mapVars, ctlVars, histVars, flushCtxDone, srcDir, dst, wg,
                   main, el, sg, mv, copied, faults>>

\* A call of a typed getter of pcap-config/internal/config on the context.
CallGet ==
    /\ lookup.pc = "loaded"
    /\ \E typ \in CtxVarTypes :
        LET got == Getter(typ, lookup.value) IN
        lookup' = [lookup EXCEPT !.pc = "got", !.typ = typ,
                                 !.v = got.v, !.err = got.err]
    /\ UNCHANGED <<gzip_pcaps, retries_max, supVars, envVars, watchVars,
                   mapVars, ctlVars, histVars, flushCtxDone, srcDir, dst, wg,
                   main, el, sg, mv, copied, faults>>

\* A call of GetBooleanOrDefault or GetStringOrDefault of that package.
CallGetOrDefault ==
    /\ lookup.pc = "loaded"
    /\ \E typ \in {"bool", "string"} : \E val \in 0..MaxValue :
        LET defaultValue == Value(typ, val)
            got == IF typ = "bool"
                   THEN GetBooleanOrDefault(lookup.value, defaultValue)
                   ELSE GetStringOrDefault(lookup.value, defaultValue)
        IN lookup' = [lookup EXCEPT !.pc = "got", !.typ = typ,
                                    !.orDefault = TRUE,
                                    !.defaultValue = defaultValue,
                                    !.v = got.v, !.err = got.err]
    /\ UNCHANGED <<gzip_pcaps, retries_max, supVars, envVars, watchVars,
                   mapVars, ctlVars, histVars, flushCtxDone, srcDir, dst, wg,
                   main, el, sg, mv, copied, faults>>

\* A call of a typed getter that reads ctx.Value(key) itself.
CallGetDirect ==
    /\ lookup.pc = "loaded"
    /\ \E typ \in CtxVarTypes :
        LET got == GetDirect(typ, lookup.value) IN
        lookup' = [lookup EXCEPT !.pc = "got", !.direct = TRUE, !.typ = typ,
                                 !.v = got.v, !.err = got.err]
    /\ UNCHANGED <<gzip_pcaps, retries_max, supVars, envVars, watchVars,
                   mapVars, ctlVars, histVars, flushCtxDone, srcDir, dst, wg,
                   main, el, sg, mv, copied, faults>>

\* A call of GetBooleanOrDefault or GetStringOrDefault built on such a getter.
CallGetOrDefaultDirect ==
    /\ lookup.pc = "loaded"
    /\ \E typ \in {"bool", "string"} : \E val \in 0..MaxValue :
        LET defaultValue == Value(typ, val)
            got == OrDefault(GetDirect(typ, lookup.value), defaultValue)
        IN lookup' = [lookup EXCEPT !.pc = "got", !.direct = TRUE,
                                    !.typ = typ, !.orDefault = TRUE,
                                    !.defaultValue = defaultValue,
                                    !.v = got.v, !.err = got.err]
    /\ UNCHANGED <<gzip_pcaps, retries_max, supVars, envVars, watchVars,
                   mapVars, ctlVars, histVars, flushCtxDone, srcDir, dst, wg,
                   main, el, sg, mv, copied, faults>>

\* The configuration package alone: a context is loaded and one getter is
\* called on it.
NextConfig ==
    \/ LoadContext
    \/ CallGet
    \/ CallGetOrDefault
    \/ CallGetDirect
    \/ CallGetOrDefaultDirect

SpecConfig == Init /\ [][NextConfig]_vars

\* ------------------------------------------------------------------ claims
Keys == {KeyOf(n) : n \in Segments}

\* The create-events of key k the streaming path has taken, in order.
ProcessedOf(k) == SelectSeq(processed, LAMBDA n : KeyOf(n) = k)

\* The movePcapToGcs calls the streaming path has made for events of key k.
LaunchesOf(k) == SelectSeq(launches, LAMBDA l : KeyOf(l.trigger) = k)

\* movePcapToGcs was called by task t and has returned.
Returned(t) ==
    /\ mv[t].pc \in {"ret", "done"}
    /\ mv[t].err \notin {"refused", "nomatch"}

\* Some destination file named after segment f holds f's whole content.
Exported(f) ==
    \E tgt \in DOMAIN dst : tgt.base = f /\ Readable(tgt) = Content(f)

\* C1: for N create-events of one rotation key taken by the streaming path,
\* exactly N-1 calls of movePcapToGcs are made, and the call made for the
\* i-th event has the file of the (i-1)-th event as its source.
C1_ExportsPairPredecessor ==
    /\ \A k \in Keys :
        LET p == ProcessedOf(k)
            l == LaunchesOf(k)
        IN Len(p) >= 1 =>
            /\ Len(l) = Len(p) - 1
            /\ \A i \in 2..Len(p) :
                /\ l[i - 1].trigger = p[i]
                /\ l[i - 1].src = p[i - 1]
    /\ el.pc = "move" =>
        /\ launches # <<>>
        /\ launches[Len(launches)].trigger = el.event
        /\ mv[StreamTask].src = launches[Len(launches)].src

\* Three events of one key have been taken and the second export has
\* returned.
C1_Witness ==
    \E k \in Keys :
        /\ Len(ProcessedOf(k)) = 3
        /\ Len(LaunchesOf(k)) = 2
        /\ el.pc = "move"
        /\ mv[StreamTask].pc = "ret"

\* C2: while a key's counter is 1, no call of movePcapToGcs has been made
\* for that key and its one file is recorded as the active segment.
C2_FirstSegmentNotExported ==
    \A k \in DOMAIN counters :
        counters[k] = 1 =>
            /\ \A i \in 1..Len(launches) :
                /\ KeyOf(launches[i].trigger) # k
                /\ launches[i].src # ProcessedOf(k)[1]
            /\ ~(el.pc = "move" /\ KeyOf(el.event) = k)
            /\ k \in DOMAIN lastPcap
            /\ lastPcap[k] = ProcessedOf(k)[1]

\* The first event of a key has been handled and the loop is back at its
\* head, while another key has already had an export.
C2_Witness ==
    \E k \in DOMAIN counters :
        /\ counters[k] = 1
        /\ el.pc = "check"
        /\ launches # <<>>

\* C3: once the streaming path has returned for the create-event of file f
\* with key k, the active segment of k is f.
C3_ActiveIsLastProcessed ==
    \A k \in Keys :
        LET p == ProcessedOf(k) IN
        Len(p) >= 1 =>
            \/ el.pc = "move" /\ KeyOf(el.event) = k
            \/ k \in DOMAIN lastPcap /\ lastPcap[k] = p[Len(p)]

\* The streaming path has returned from an event whose export failed and
\* from an event whose export succeeded.
C3_Witness ==
    /\ el.pc = "check"
    /\ Len(launches) = 2
    /\ Cardinality(copied) = 1

\* C4: when the streaming move of a key's first segment reports success,
\* the segment's content is in the destination directory under its base
\* name, with the gz suffix exactly when compressing, and the segment is
\* gone from the source directory (the removal itself not having failed).
C4_ExportedThenRemoved ==
    LET m == mv[StreamTask] IN
    (el.pc = "move" /\ el.iteration = 2 /\ m.pc = "ret" /\ m.err = "nil"
        /\ m.removed) =>
        /\ \E tgt \in DOMAIN dst :
            /\ tgt.dir = "gcs_dir"
            /\ tgt.base = m.src
            /\ tgt.gz = gzip_pcaps
            /\ Readable(tgt) = Content(m.src)
        /\ m.src \notin srcDir

\* C5: when the process has terminated after a shutdown by the sentinel or
\* by a signal, and no open, create, copy or remove call has failed nor the
\* flush context expired, every segment ever created is in the destination
\* directory with its whole content.
C5_NoSegmentLost ==
    (main.pc = "exit" /\ faults = 0 /\ ~flushCtxDone) =>
        \A f \in created : Exported(f)

\* C6: no segment is copied successfully more than once.
C6_NoDoubleExport ==
    \A f \in created : Cardinality({c \in copied : c.src = f}) <= 1

\* C7: a move that succeeds after K failed copy attempts, K < retries_max,
\* has logged one success record and K retry records, and has deleted the
\* source exactly when deletion was requested.
C7_RetryThenSuccess ==
    \A t \in Tasks :
        LET m == mv[t] IN
        (Returned(t) /\ m.err = "nil" /\ m.attempts - 1 < retries_max) =>
            /\ m.okRecs = 1
            /\ m.retryRecs = m.attempts - 1
            /\ m.removed <=> m.delete

\* C7 as amended: ... and has tried to delete the source exactly when
\* deletion was requested; the source is deleted by the move only when it
\* tried.
C7_RetryThenSuccessAmended ==
    \A t \in Tasks :
        LET m == mv[t] IN
        (Returned(t) /\ m.err = "nil" /\ m.attempts - 1 < retries_max) =>
            /\ m.okRecs = 1
            /\ m.retryRecs = m.attempts - 1
            /\ m.failRecs = 0
            /\ m.rmTried <=> m.delete
            /\ m.removed => m.rmTried

\* A move has succeeded at its second attempt.
C7_Witness ==
    \E t \in Tasks :
        /\ Returned(t)
        /\ mv[t].err = "nil"
        /\ mv[t].attempts = 2
        /\ retries_max > 1

C9_AttemptsBounded ==
    \A t \in Tasks :
        mv[t].attempts <= (IF retries_max = 0 THEN 1 ELSE retries_max)

\* C10: a move that could not open its source or create its destination
\* has returned an error with no copy attempt, no retry and no attempt to
\* delete the source.
C10_OpenCreateNotRetried ==
    \A t \in Tasks :
        LET m == mv[t] IN
        (m.pc # "none" /\ m.err \in {"open", "create"}) =>
            /\ Returned(t)
            /\ m.attempts = 0
            /\ m.retryRecs = 0
            /\ m.okRecs = 0
            /\ ~m.rmTried
            /\ ~m.removed
            /\ m.rd = 0

\* A move has returned because the destination file exists already.
C10_Witness ==
    \E t \in Tasks :
        /\ Returned(t)
        /\ mv[t].err = "create"
        /\ mv[t].opened
        /\ faults = 0

\* C11: a streaming move whose copy succeeded and whose os.Remove of the
\* source failed has returned nil, and the call of exportPcapFile that made
\* it has recorded the export as succeeded.
C11_RemoveFailureNotFatal ==
    /\ LET m == mv[StreamTask] IN
       (m.pc = "ret" /\ m.okRecs = 1 /\ m.delete /\ m.rmTried /\ ~m.removed) =>
            m.err = "nil" /\ ExportReturn(m)
    /\ \A i \in DOMAIN swaps : swaps[i].rmFailed => swaps[i].ok

\* A streaming call has returned from a move whose os.Remove failed, and the
\* source is still in the source directory.
C11_Witness ==
    \E i \in DOMAIN swaps :
        /\ swaps[i].rmFailed
        /\ swaps[i].src \in srcDir
        /\ \E c \in copied : c.src = swaps[i].src

\* C12: once the terminal scan is made, every file still in the source
\* directory, the active segment of each key included, has exactly one flush
\* task, whatever the counters and the active segments are; every flush task
\* compresses nothing, names its destination without the gz suffix and
\* makes no attempt to delete its source.
C12_FlushCoversDirectory ==
    main.pc \in {"wait2", "exit"} =>
        /\ \A f \in srcDir : \E t \in Started : mv[t].src = f
        /\ \A t, u \in Started : mv[t].src = mv[u].src => t = u
        /\ Cardinality(Started) = main.pending
        /\ \A t \in Started :
            /\ mv[t].flush /\ ~mv[t].compress /\ ~mv[t].delete
            /\ ~mv[t].rmTried /\ ~mv[t].removed
            /\ mv[t].created => TargetName(mv[t].src, FALSE) \in DOMAIN dst
        /\ \A c \in copied : c.by \in FlushTasks => ~c.tgt.gz

\* The sentinel has shut the program down with two segments left in the
\* source directory, one of them active; both were flushed and are still
\* there.
C12_Witness ==
    /\ main.pc = "exit"
    /\ cancelled /\ ~signalled
    /\ Cardinality(srcDir) = 2
    /\ \E k \in DOMAIN lastPcap : lastPcap[k] \in srcDir
    /\ \A f \in srcDir : \E c \in copied : c.src = f /\ c.by \in FlushTasks

\* C13: once the function of the deadline timer has run, the shared
\* context is cancelled, unless the event loop has just won the guard for
\* the sentinel and is about to cancel.
C13_DeadlineCancels ==
    (sg.timer = "fired" /\ el.pc # "sentinel") => cancelled

\* C14: cancel is called at most once in a run, by a caller that has set
\* the active flag to false.
C14_CancelOnce ==
    /\ cancelCalls <= 1
    /\ cancelled <=> cancelCalls = 1
    /\ cancelled => ~isActive

\* The deadline timer has fired and lost the guard to the detection of the
\* sentinel, which has cancelled once.
C14_Witness ==
    /\ cancelCalls = 1
    /\ sg.timer = "fired"
    /\ capture = "stopped"
    /\ Sentinel \notin srcDir

\* C15: a run in which watcher.Add failed does not come to rest with main
\* blocked on the context: main has got past it, or some step of the
\* program or of its environment is still to come.
C15_InitFailureTerminates ==
    (main.err /\ main.pc = "await") => ENABLED Next

\* C16: no flush task of a second terminal scan copies its file.
C16_RescanExportsNothing ==
    main.pc \in {"wait3", "exit"} => \A t \in Started : mv[t].okRecs = 0

\* C16 as amended: a flush task of a second terminal scan copies its file
\* only if the first scan's task for that file failed to open the source or
\* to create the destination.
C16_RescanExportsNothingAmended ==
    main.pc \in {"wait3", "exit"} =>
        \A t \in Started :
            mv[t].okRecs = 1 =>
                /\ mv[t].src \in DOMAIN main.first
                /\ main.first[mv[t].src] \in {"open", "create"}

\* Both scans have run over two segments, which the first scan copied; the
\* tasks of the second have all returned at the creation of the destination.
C16_Witness ==
    /\ main.pc = "exit"
    /\ Cardinality(Started) = 2
    /\ \A t \in Started :
        /\ mv[t].err = "create"
        /\ main.first[mv[t].src] = "nil"
        /\ \E c \in copied : c.src = mv[t].src /\ c.by \in FlushTasks

\* The two concurrent calls have both returned and theirs are the last two
\* swaps: both had read the same active segment.
BothSwapped ==
    /\ sup.pc = "done"
    /\ Len(swaps) >= 2
    /\ LET a == swaps[Len(swaps) - 1]
           b == swaps[Len(swaps)]
       IN /\ {a.by, b.by} = {"loop", "sup"}
          /\ a.src = b.src

\* C17: of two concurrent streaming calls that read the same active segment,
\* at most one logs a leak, and once both have returned the active segment is
\* the file of the call whose compare-and-swap came last.
C17_ConcurrentSupersede ==
    BothSwapped =>
        LET a == swaps[Len(swaps) - 1]
            b == swaps[Len(swaps)]
        IN /\ ~(a.leaked /\ b.leaked)
           /\ MapGet(lastPcap, KeyOf(b.file)) = b.file

\* Both orders of the conflict: the losing call logged the leak.
C17_Witness ==
    /\ BothSwapped
    /\ swaps[Len(swaps)].leaked
    /\ swaps[Len(swaps)].by = "sup"
    /\ leaks = 1

\* movePcapToGcs is running for task t: called and not yet returned.
Moving(t) == mv[t].pc \notin {"none", "ret", "done"}

\* C18: once the context is cancelled the event loop starts no streaming
\* export: no call of movePcapToGcs is made from the loop after that.
C18_NoStreamAfterCancel ==
    [][cancelled => ~(~Moving(StreamTask) /\ Moving(StreamTask)')]_vars

\* C19: no flush task is copying while a streaming export is copying.
C19_FlushAfterStreaming ==
    \A t \in FlushTasks : Moving(t) => ~Moving(StreamTask)

\* C20: while a streaming export is running and an event is buffered, the
\* event loop can receive that event.
C20_LoopFreeDuringExport ==
    (Running /\ Moving(StreamTask) /\ events # <<>>) => ENABLED ELRecv

\* The content of segment f can be read from a file of the destination.
Reached(f) ==
    \E tgt \in DOMAIN dst : tgt.base = f /\ Readable(tgt) = Content(f)

\* The segments whose streaming export failed at the opening of the source,
\* at the creation of the destination, or with its copy attempts exhausted.
StreamFailed ==
    {swaps[i].src :
        i \in {j \in DOMAIN swaps : swaps[j].err \in {"open", "create", "copy"}}}

\* The copy step of flush task t did not fail: the task copied at its first
\* attempt, or never came to copy because the destination file existed.
FlushCopyUnfailed(t) ==
    \/ mv[t].err = "nil" /\ mv[t].okRecs = 1 /\ mv[t].retryRecs = 0
    \/ /\ mv[t].err = "create"
       /\ ~mv[t].created
       /\ TargetName(mv[t].src, FALSE) \in DOMAIN dst

\* C21: at exit, a segment whose streaming export failed and which is still
\* in the source directory has its content in the destination, unless the
\* copy step of its flush task failed.
C21_FailedExportFlushed ==
    main.pc = "exit" =>
        \A f \in StreamFailed \cap srcDir :
            \A t \in Started :
                (mv[t].src = f /\ FlushCopyUnfailed(t)) => Reached(f)

\* C22: the step that detects the sentinel wins the active flag and touches
\* no counter and no active segment; the step that handles it removes the
\* sentinel file and cancels the context together, ends the loop, and
\* touches no counter, no active segment and launches no export.
C22_SentinelHandling ==
    [][/\ (el.pc # "sentinel" /\ el'.pc = "sentinel") =>
            /\ tcpdumpwExitSignalMatch(el'.event)
            /\ ~pcapDotExtMatch(el'.event)
            /\ isActive /\ ~isActive'
            /\ UNCHANGED <<counters, lastPcap, launches>>
       /\ (el.pc = "sentinel" /\ el' # el) =>
            /\ el'.pc = "done"
            /\ ~cancelled /\ cancelled'
            /\ el.event \notin srcDir'
            /\ UNCHANGED <<counters, lastPcap, launches>>
       /\ el.pc = "sentinel" => UNCHANGED <<counters, lastPcap>>
      ]_vars

\* The sentinel was handled after a segment had become active: the loop
\* has ended, the context is cancelled, the sentinel file is gone.
C22_Witness ==
    /\ el.pc = "done"
    /\ el.event = Sentinel
    /\ cancelled
    /\ ~signalled
    /\ capture = "stopped"
    /\ Sentinel \notin srcDir
    /\ lastPcap # <<>>

\* The calls of exportPcapFile that have not returned: the flush tasks still
\* running and the streaming call of the event loop.
Outstanding ==
    Cardinality({t \in Started : mv[t].pc # "done"})
        + (IF el.pc \in {"dispatch", "move"} THEN 1 ELSE 0)

\* C23: the WaitGroup counts exactly the calls of exportPcapFile that have
\* not returned, whichever way they return; when main has returned every
\* flush task of the terminal scan has returned and the counter is zero.
C23_ExitAfterFlush ==
    /\ wg = Outstanding
    /\ main.pc = "exit" =>
        /\ wg = 0
        /\ Cardinality(Started) = main.pending
        /\ \A t \in Started : mv[t].pc = "done"

\* Main has returned after two flush tasks, one that copied its file and one
\* that returned with an error.
C23_Witness ==
    /\ main.pc = "exit"
    /\ Cardinality(Started) = 2
    /\ \E t, u \in Started : mv[t].err = "nil" /\ mv[t].okRecs = 1 /\ mv[u].err # "nil"

\* C24: once the context is cancelled, main eventually returns.
C24_CancelLeadsToExit == cancelled ~> main.pc = "exit"

\* Main has returned after a cancellation that found a streaming export in
\* progress and a terminal scan that started flush tasks.
C24_Witness ==
    /\ main.pc = "exit"
    /\ cancelled
    /\ Started # {}
    /\ swaps # <<>>

\* Two segment names of the same ordinal and stream-id.
SameStream(a, b) == a.ord = b.ord /\ a.iface = b.iface

C26_MonitorFailureLogged ==
    \A i \in DOMAIN mon.log :
        (mon.log[i].before \/ mon.log[i].flush \/ mon.log[i].after) =>
            mon.log[i].recs # <<>>

\* C27: a move that has returned with a copy error reports as its byte
\* count what it wrote to the destination.
C27_BytesReportedOnFailure ==
    \A t \in Tasks :
        (mv[t].pc \in {"ret", "done"} /\ mv[t].created /\ mv[t].err \in {"copy", "ctx"}) =>
            mv[t].bytes = Len(dst[TargetName(mv[t].src, mv[t].compress)])

\* C28: a streaming call that raises its key's counter to 2 or more having
\* read no active segment sets its file as the active segment, calls no
\* move, logs the error and returns; the event loop and main are untouched.
C28_MissingActiveSegment ==
    [][(/\ sup.pc = "got"
        /\ sup'.pc # "got"
        /\ sup'.iteration >= 2
        /\ (~sup.loaded \/ sup.last = NoName)) =>
            /\ sup'.branch = "missing"
            /\ sup'.pc = "done"
            /\ lastPcap'[KeyOf(sup.file)] = sup.file
            /\ UNCHANGED <<mv, launches, el, main>>
            /\ Running'
      ]_vars

\* A call took that way: its counter value was 2 and it had read no active
\* segment, the loop's call having set the first one in between.
C28_Witness ==
    /\ sup.pc = "done"
    /\ sup.branch = "missing"
    /\ sup.iteration = 2
    /\ ~sup.loaded
    /\ Len(processed) = 1

\* C29: no step of a flush task changes a creation counter or an active
\* segment, whether the task copies its file, fails or is refused.
C29_FlushLeavesRotationState ==
    [][(\E t \in FlushTasks : mv[t].pc # "none" /\ mv'[t] # mv[t]) =>
            UNCHANGED <<counters, lastPcap>>]_vars

\* Main has returned after a flush task that copied its file and one that
\* failed; the counters and the active segment are those the streaming path
\* left.
C29_Witness ==
    /\ main.pc = "exit"
    /\ \E t, u \in Started :
        /\ mv[t].err = "nil" /\ mv[t].okRecs = 1
        /\ mv[u].err \notin {"nil", "nomatch"}
    /\ \E k \in DOMAIN counters :
        /\ counters[k] = Cardinality({i \in DOMAIN processed : KeyOf(processed[i]) = k})
        /\ counters[k] = 2
        /\ lastPcap[k] \in srcDir

\* C30: the receipt of an event that is not a create-event, or whose name
\* does not match the segment pattern, changes no counter and no active
\* segment and launches no export: the loop goes back to its head.
C30_OtherEventsIgnored ==
    [][(/\ el.pc = "select"
        /\ el'.pc # "select"
        /\ events # <<>>
        /\ \/ Head(events).op # "CREATE"
           \/ ~pcapDotExtMatch(Head(events).name)) =>
            /\ el'.pc \in {"check", "sentinel"}
            /\ UNCHANGED <<counters, lastPcap, launches, processed, mv, wg>>
      ]_vars

\* The loop has received a write event of the active segment, and with a
\* segment active it is back at its head, having launched nothing.
C30_Witness ==
    /\ el.pc = "check"
    /\ el.op = "WRITE"
    /\ \E k \in DOMAIN lastPcap : lastPcap[k] = el.event
    /\ Len(processed) = 1
    /\ launches = <<>>
    /\ mv[StreamTask] = NoMove

\* C31: while the streaming call's move of the previous active segment is
\* running the active segment is still that one; the step that changes it
\* to the new file is taken with the move of the old one returned.
C31_ExportBeforeSwap ==
    [][el.pc = "move" =>
        /\ MapGet(lastPcap, KeyOf(el.event)) = el.last
        /\ mv[StreamTask].src = el.last
        /\ lastPcap' # lastPcap =>
            /\ mv[StreamTask].pc = "ret"
            /\ lastPcap'[KeyOf(el.event)] = el.event
      ]_vars

\* A superseding event was handled to the end: the move of the old segment
\* failed, and the active segment is the new file.
C31_Witness ==
    /\ Len(swaps) = 1
    /\ ~swaps[1].ok
    /\ swaps[1].src \in srcDir
    /\ lastPcap[KeyOf(swaps[1].file)] = swaps[1].file
    /\ swaps[1].file # swaps[1].src

\* The move is in its retry loop and has made no copy attempt yet.
BeforeFirstAttempt(m) == m.pc = "retry" /\ m.attempts = 0

\* C32: with the context cancelled, the next step of a streaming move that
\* is in its retry loop with no attempt made is its return with a failure:
\* no copy attempt is started and the source stays in place.
C32_CancelledMoveStops ==
    [][(/\ cancelled
        /\ BeforeFirstAttempt(mv[StreamTask])
        /\ mv'[StreamTask] # mv[StreamTask]) =>
            /\ mv'[StreamTask].pc = "ret"
            /\ mv'[StreamTask].err = "ctx"
            /\ mv'[StreamTask].attempts = 0
            /\ mv[StreamTask].src \in srcDir'
      ]_vars

\* Every streaming export so far has succeeded and removed its source.
AllExportsSucceeded ==
    /\ \A i \in DOMAIN swaps : swaps[i].ok /\ ~swaps[i].rmFailed
    /\ mv[StreamTask].err = "nil"
    /\ mv[StreamTask].retryRecs = 0
    /\ ~(mv[StreamTask].rmTried /\ ~mv[StreamTask].removed)

\* The segments of the directory whose create-event the loop has handled.
Handled == {f \in srcDir : \E i \in DOMAIN processed : processed[i] = f}

C34_FlushNeverRefused ==
    /\ cancelled => ~isActive
    /\ main.pc \in {"wait1", "scan", "wait2", "wait3", "exit"} => ~isActive
    /\ \A t \in FlushTasks : mv[t].err # "refused"

\* A task of the terminal scan has passed the guard and opened its file.
C34_Witness ==
    /\ cancelled
    /\ \E t \in FlushTasks : mv[t].flush /\ mv[t].opened

\* C35: at most one streaming call of exportPcapFile is in progress, the
\* one the event loop is blocked in; the active segment it read is still the
\* recorded one when it swaps, so the compare-and-swap never fails and the
\* "leaked" branch is never taken.
C35_NoOverlapNoLeak ==
    /\ Len(launches) - Len(swaps) = (IF el.pc = "move" THEN 1 ELSE 0)
    /\ el.pc # "move" => mv[StreamTask] = NoMove
    /\ el.pc = "move" => ~SwapFails(lastPcap, KeyOf(el.event), el.last)
    /\ leaks = 0
    /\ \A i \in DOMAIN swaps : ~swaps[i].leaked /\ swaps[i].by = "loop"

\* The loop is inside the export of a superseded segment while the
\* create-event of a further segment waits in the watcher's buffer.
C35_Witness ==
    /\ el.pc = "move"
    /\ mv[StreamTask].pc = "retry"
    /\ events # <<>>
    /\ Head(events).op = "CREATE"
    /\ pcapDotExtMatch(Head(events).name)
    /\ leaks = 0

\* C36: a key whose counter is at least 1 has a recorded, non-empty active
\* segment, so a dispatch of the event loop never takes the way of the
\* missing predecessor.
C36_CountedKeyHasActive ==
    /\ \A k \in DOMAIN counters :
        counters[k] >= 1 => k \in DOMAIN lastPcap /\ lastPcap[k] # NoName
    /\ (el.pc = "dispatch" /\ pcapDotExtMatch(el.event)) =>
        LET key == KeyOf(el.event) IN
        StreamBranch((IF key \in DOMAIN counters THEN counters[key] ELSE 0) + 1,
                     key \in DOMAIN lastPcap, MapGet(lastPcap, key)) # "missing"

\* The loop is about to dispatch the third segment of a key, after a first
\* one that was only recorded and a second one that exported it.
C36_Witness ==
    /\ el.pc = "dispatch"
    /\ KeyOf(el.event) \in DOMAIN counters
    /\ counters[KeyOf(el.event)] = 2
    /\ Len(swaps) = 1
    /\ lastPcap[KeyOf(el.event)] = swaps[1].file

\* C37: a file of the terminal scan whose path is not that of a segment is
\* counted among the pending files, and its task returns without opening,
\* creating or copying anything; so the number reported as pending can
\* exceed the number of files a copy is attempted for.
C37_UnmatchedCountedNotCopied ==
    /\ \A t \in FlushTasks :
        (mv[t].pc # "none" /\ mv[t].src \notin Segments) =>
            /\ mv[t].pc \in {"open", "done"}
            /\ ~mv[t].opened
            /\ ~mv[t].created
            /\ mv[t].attempts = 0
            /\ mv[t].pc = "done" => mv[t].err = "nomatch"
            /\ \A g \in BOOLEAN : TargetName(mv[t].src, g) \notin DOMAIN dst
    /\ \A c \in copied : c.src \in Segments
    /\ main.pc = "wait2" => main.pending = Cardinality(Started)

\* The scan has counted two files, the sentinel among them; the segment has
\* been copied and the task of the sentinel has returned on the pattern.
C37_Witness ==
    /\ main.pc = "wait2"
    /\ main.pending = 2
    /\ \E t \in FlushTasks : mv[t].src = Sentinel /\ mv[t].err = "nomatch"
    /\ Cardinality({c \in copied : c.by \in FlushTasks}) = 1

\* C38: when a move has reported success, also after failed attempts, the
\* destination holds the whole content of the source and the byte count
\* reported is the size of the source.
C38_SuccessMeansComplete ==
    \A t \in Tasks :
        LET m == mv[t] IN
        (m.pc # "none" /\ m.okRecs > 0) =>
            /\ Readable(TargetName(m.src, m.compress)) = Content(m.src)
            /\ m.bytes = SegLen

\* C39: a typed getter called on a context that holds a value of its type
\* returns that value and no error, and the OrDefault getter of that type
\* returns the stored value then, the default being left for an absent
\* value, a stored error and a value of another type.
C39_GetterReturnsStored ==
    (lookup.pc = "got" /\ lookup.value.typ = lookup.typ) =>
        /\ lookup.v = lookup.value
        /\ lookup.err = "nil"

====
